---- MODULE Spec2Model ----
(***************************************************************************)
(* A model of src/src/index.ts: the IBC balance tracker.                   *)
(*                                                                         *)
(* One run of trackBalances(denom, account) is modelled as a state machine:*)
(* the six per-chain balance fetches are launched, settle in any order,    *)
(* Promise.all settles, and the synchronous depth-first traversal (DFS)    *)
(* runs one invocation per step on an explicit call stack.  getDenom is    *)
(* modelled as an operator over strings; a second specification applies it *)
(* to arbitrary pairs of chain names.                                      *)
(*                                                                         *)
(* Modelling conventions                                                   *)
(*  - a JavaScript object is a function whose DOMAIN is its set of keys;   *)
(*    a lookup of a missing key is the value Undefined;                    *)
(*  - strings are TLA+ strings, concatenated as the code concatenates      *)
(*    them; sha256 + toHex is the injective symbolic image                 *)
(*    "sha256hex[" s "]" (collision-free hash), toUpperCase wraps it in    *)
(*    "upper(...)";                                                        *)
(*  - an amount string of a Coin is a sequence of characters, parsed by    *)
(*    parseFloat as the code parses it (sign, leading digits, NaN);       *)
(*  - a bech32 address is the record of its prefix and payload, or the     *)
(*    value Malformed.                                                     *)
(***************************************************************************)
EXTENDS Integers, Sequences, FiniteSets, TLC

\* ------------------------------------------------------------------ bounds

\* The largest number of coins the account holds over all chains together.
MaxHoldings == 2

\* The largest number of hops the getDenom harness chains together.
MaxHops == 2

\* ---------------------------------------------------------------- registry

chainNameToIdMap ==
  [neutron   |-> "neutron-1",
   osmosis   |-> "osmosis-1",
   terra     |-> "phoenix-1",
   stargaze  |-> "stargaze-1",
   cosmoshub |-> "cosmoshub-4",
   stride    |-> "stride-1"]

\* Object.keys(chainNameToIdMap), in insertion order.
chainNames == <<"neutron", "osmosis", "terra", "stargaze", "cosmoshub", "stride">>

chainPrefix ==
  [neutron   |-> "neutron",
   osmosis   |-> "osmo",
   terra     |-> "terra",
   stargaze  |-> "stars",
   cosmoshub |-> "cosmos",
   stride    |-> "stride"]

\* IBCMap with one mistyped entry: on osmosis the channel towards stride
\* repeats the channel towards terra.
IBCMapDuplicateChannel ==
  [n \in {"neutron-1", "osmosis-1", "phoenix-1", "stargaze-1", "cosmoshub-4", "stride-1"} |->
     CASE n = "neutron-1" ->
            ("osmosis-1" :> "channel-10" @@ "phoenix-1" :> "channel-25" @@
             "stargaze-1" :> "channel-18" @@ "cosmoshub-4" :> "channel-1" @@
             "stride-1" :> "channel-8")
       [] n = "osmosis-1" ->
            ("neutron-1" :> "channel-874" @@ "phoenix-1" :> "channel-251" @@
             "stargaze-1" :> "channel-75" @@ "cosmoshub-4" :> "channel-0" @@
             "stride-1" :> "channel-251")
       [] n = "phoenix-1" ->
            ("neutron-1" :> "channel-229" @@ "osmosis-1" :> "channel-1" @@
             "stargaze-1" :> "channel-324" @@ "cosmoshub-4" :> "channel-0" @@
             "stride-1" :> "channel-46")
       [] n = "stargaze-1" ->
            ("neutron-1" :> "channel-191" @@ "osmosis-1" :> "channel-0" @@
             "phoenix-1" :> "channel-266" @@ "cosmoshub-4" :> "channel-239" @@
             "stride-1" :> "channel-106")
       [] n = "cosmoshub-4" ->
            ("neutron-1" :> "channel-569" @@ "osmosis-1" :> "channel-141" @@
             "phoenix-1" :> "channel-339" @@ "stargaze-1" :> "channel-730" @@
             "stride-1" :> "channel-391")
       [] n = "stride-1" ->
            ("neutron-1" :> "channel-123" @@ "osmosis-1" :> "channel-5" @@
             "phoenix-1" :> "channel-52" @@ "stargaze-1" :> "channel-19" @@
             "cosmoshub-4" :> "channel-0")]

\* IBCMap[destination chain id][source chain id] = channel id.
IBCMap ==
  [n \in {"neutron-1", "osmosis-1", "phoenix-1", "stargaze-1", "cosmoshub-4", "stride-1"} |->
     CASE n = "neutron-1" ->
            ("osmosis-1" :> "channel-10" @@ "phoenix-1" :> "channel-25" @@
             "stargaze-1" :> "channel-18" @@ "cosmoshub-4" :> "channel-1" @@
             "stride-1" :> "channel-8")
       [] n = "osmosis-1" ->
            ("neutron-1" :> "channel-874" @@ "phoenix-1" :> "channel-251" @@
             "stargaze-1" :> "channel-75" @@ "cosmoshub-4" :> "channel-0" @@
             "stride-1" :> "channel-326")
       [] n = "phoenix-1" ->
            ("neutron-1" :> "channel-229" @@ "osmosis-1" :> "channel-1" @@
             "stargaze-1" :> "channel-324" @@ "cosmoshub-4" :> "channel-0" @@
             "stride-1" :> "channel-46")
       [] n = "stargaze-1" ->
            ("neutron-1" :> "channel-191" @@ "osmosis-1" :> "channel-0" @@
             "phoenix-1" :> "channel-266" @@ "cosmoshub-4" :> "channel-239" @@
             "stride-1" :> "channel-106")
       [] n = "cosmoshub-4" ->
            ("neutron-1" :> "channel-569" @@ "osmosis-1" :> "channel-141" @@
             "phoenix-1" :> "channel-339" @@ "stargaze-1" :> "channel-730" @@
             "stride-1" :> "channel-391")
       [] n = "stride-1" ->
            ("neutron-1" :> "channel-123" @@ "osmosis-1" :> "channel-5" @@
             "phoenix-1" :> "channel-52" @@ "stargaze-1" :> "channel-19" @@
             "cosmoshub-4" :> "channel-0")]

\* ------------------------------------------------------- JavaScript values

\* The value of a property that an object does not have.
Undefined == [def |-> FALSE]

Defined(v) == [def |-> TRUE, val |-> v]

\* obj[key] for an object obj.
Lookup(obj, key) == IF key \in DOMAIN obj THEN Defined(obj[key]) ELSE Undefined

\* A completed evaluation: a value, or a thrown error.
Return(v) == [ok |-> TRUE, value |-> v]

Throw(e) == [ok |-> FALSE, error |-> e]

\* The elements of a sequence.
Range(s) == {s[k] : k \in 1..Len(s)}

Last(s) == s[Len(s)]

\* path.slice(1)
Slice1(path) == SubSeq(path, 2, Len(path))

\* path.slice(1).includes(chain)
Includes(s, x) == \E k \in 1..Len(s) : s[k] = x

\* -------------------------------------------------------------- hash, denom

\* toHex(sha256(toUtf8(s))): lower-case hex digest, collision-free.
hash(s) == "sha256hex[" \o s \o "]"

toUpperCase(s) == "upper(" \o s \o ")"

\* getDenom that leaves the digest in lower case.
getDenomLowerCase(srcChain, destChain, baseDenomTrace) ==
  LET srcChainId  == Lookup(chainNameToIdMap, srcChain)
      destChainId == Lookup(chainNameToIdMap, destChain)
      row == IF destChainId.def THEN Lookup(IBCMap, destChainId.val) ELSE Undefined
  IN  IF ~row.def
        THEN Throw("TypeError")
        ELSE LET channelId == IF srcChainId.def
                                THEN Lookup(row.val, srcChainId.val)
                                ELSE Undefined
                 trace == "transfer/" \o (IF channelId.def THEN channelId.val ELSE "undefined")
                             \o "/" \o baseDenomTrace.trace
             IN  Return([denom |-> "ibc/" \o hash(trace), trace |-> trace])

\* getDenom that reads the channel from the sending chain's row.
getDenomSenderRow(srcChain, destChain, baseDenomTrace) ==
  LET srcChainId  == Lookup(chainNameToIdMap, srcChain)
      destChainId == Lookup(chainNameToIdMap, destChain)
      row == IF srcChainId.def THEN Lookup(IBCMap, srcChainId.val) ELSE Undefined
  IN  IF ~row.def
        THEN Throw("TypeError")
        ELSE LET channelId == IF destChainId.def
                                THEN Lookup(row.val, destChainId.val)
                                ELSE Undefined
                 trace == "transfer/" \o (IF channelId.def THEN channelId.val ELSE "undefined")
                             \o "/" \o baseDenomTrace.trace
             IN  Return([denom |-> "ibc/" \o toUpperCase(hash(trace)), trace |-> trace])

\* getDenom(srcChain, destChain, baseDenomTrace).  IBCMap[destChainId] of an
\* unknown destination is undefined and indexing it throws a TypeError; a
\* missing entry of an existing row is undefined and is interpolated into the
\* template string as "undefined".
getDenom(srcChain, destChain, baseDenomTrace) ==
  LET srcChainId  == Lookup(chainNameToIdMap, srcChain)
      destChainId == Lookup(chainNameToIdMap, destChain)
      row == IF destChainId.def THEN Lookup(IBCMap, destChainId.val) ELSE Undefined
  IN  IF ~row.def
        THEN Throw("TypeError")
        ELSE LET channelId == IF srcChainId.def
                                THEN Lookup(row.val, srcChainId.val)
                                ELSE Undefined
                 trace == "transfer/" \o (IF channelId.def THEN channelId.val ELSE "undefined")
                             \o "/" \o baseDenomTrace.trace
             IN  Return([denom |-> "ibc/" \o toUpperCase(hash(trace)), trace |-> trace])

\* ------------------------------------------------------------- parseFloat

Digits == {"0", "1", "2", "3", "4", "5", "6", "7", "8", "9"}

DigitValue(c) ==
  CASE c = "0" -> 0 [] c = "1" -> 1 [] c = "2" -> 2 [] c = "3" -> 3 [] c = "4" -> 4
    [] c = "5" -> 5 [] c = "6" -> 6 [] c = "7" -> 7 [] c = "8" -> 8 [] c = "9" -> 9

\* The number of leading digits of s.
RECURSIVE LeadingDigits(_)
LeadingDigits(s) ==
  IF s = <<>> \/ Head(s) \notin Digits THEN 0 ELSE 1 + LeadingDigits(Tail(s))

\* The value of the decimal numeral s (digits only).
RECURSIVE Numeral(_)
Numeral(s) ==
  IF s = <<>> THEN 0 ELSE 10 * Numeral(SubSeq(s, 1, Len(s) - 1)) + DigitValue(Last(s))

NaN == [nan |-> TRUE, val |-> 0]

\* parseFloat(s) for strings over digits, "-" and letters: an optional sign,
\* the longest run of digits, NaN when there is none.
parseFloat(s) ==
  LET neg  == s # <<>> /\ Head(s) = "-"
      body == IF neg THEN Tail(s) ELSE s
      n    == LeadingDigits(body)
      v    == Numeral(SubSeq(body, 1, n))
  IN  IF n = 0 THEN NaN ELSE [nan |-> FALSE, val |-> IF neg THEN 0 - v ELSE v]

\* if (balance && balance > 0): NaN and 0 are falsy.
IsPositive(balance) == (~balance.nan /\ balance.val # 0) /\ balance.val > 0

\* allBalances[currentChain].find(b => b.denom === denom)
RECURSIVE find(_, _)
find(coins, denom) ==
  IF coins = <<>> THEN Undefined
  ELSE IF Head(coins).denom = denom THEN Defined(Head(coins))
  ELSE find(Tail(coins), denom)

\* parseFloat(coins.find(...)?.amount || '0'): the empty string is falsy.
matchedBalance(coins, denom) ==
  LET hit    == find(coins, denom)
      amount == IF hit.def /\ hit.val.amount # <<>> THEN hit.val.amount ELSE <<"0">>
  IN  parseFloat(amount)

\* ---------------------------------------------------------------- addresses

Malformed == [valid |-> FALSE, prefix |-> "", data |-> ""]

\* fromBech32(address): the prefix and payload, or a thrown decoding error.
fromBech32(address) ==
  IF address.valid THEN Return([prefix |-> address.prefix, data |-> address.data])
  ELSE Throw("DecodingError")

toBech32(prefix, data) == [valid |-> TRUE, prefix |-> prefix, data |-> data]

convertAddressPrefix(address, newPrefix) ==
  IF newPrefix = "terra"
    THEN Return(toBech32("terra", "w7mtx2g478kkhs6pgynpcjpt6aw4930q"))
    ELSE LET decoded == fromBech32(address)
         IN  IF decoded.ok THEN Return(toBech32(newPrefix, decoded.value.data))
             ELSE decoded

\* ------------------------------------------------------------------- inputs

dAssetDenom == "factory/neutron1lzecpea0qxw5xae92xkm3vaddeszr278k7w20c/dAsset"

lAssetDenom == "factory/neutron1lzecpea0qxw5xae92xkm3vaddeszr278k7w20c/lAsset"

\* The account main passes, and an address that does not decode.
mainAccount == toBech32("neutron", "lzecpea0qxw5xae92xkm3vaddeszr278")

Accounts == {mainAccount, Malformed}

Origin == "neutron"

ChainSet == Range(chainNames)

\* The trace an IBC token carries after travelling along path, as the
\* receiving chains build it: each hop prefixes the receiver's port and channel.
RECURSIVE ibcTrace(_, _)
ibcTrace(base, path) ==
  IF Len(path) = 1 THEN base
  ELSE "transfer/"
         \o IBCMap[chainNameToIdMap[path[Len(path)]]][chainNameToIdMap[path[Len(path) - 1]]]
         \o "/" \o ibcTrace(base, SubSeq(path, 1, Len(path) - 1))

\* The denom under which the last chain of path holds the token.
ibcDenom(base, path) ==
  IF Len(path) = 1 THEN base ELSE "ibc/" \o toUpperCase(hash(ibcTrace(base, path)))

Holding(chain, denom, amount) == [chain |-> chain, denom |-> denom, amount |-> amount]

\* The holdings the account may have: the base token on the origin (positive
\* and zero), wrapped tokens at the end of their path, after a return to the
\* origin and after the longest path, a wrapped token on another chain than its
\* path ends on, the token of a path that visits osmosis twice, an amount that
\* is not a number, and a holding of the second tracked denom.
CandidateHoldings ==
  << Holding("neutron", dAssetDenom, <<"5">>),
     Holding("neutron", dAssetDenom, <<"0">>),
     Holding("osmosis", ibcDenom(dAssetDenom, <<"neutron", "osmosis">>), <<"7">>),
     Holding("neutron", ibcDenom(dAssetDenom, <<"neutron", "osmosis", "neutron">>), <<"3">>),
     Holding("osmosis",
             ibcDenom(dAssetDenom, <<"neutron", "cosmoshub", "terra", "osmosis">>), <<"2">>),
     Holding("osmosis", ibcDenom(dAssetDenom, <<"neutron", "stargaze">>), <<"4">>),
     Holding("stride",
             ibcDenom(dAssetDenom, <<"neutron", "osmosis", "neutron", "terra", "stargaze",
                                     "cosmoshub", "stride">>), <<"1", "0">>),
     Holding("osmosis",
             ibcDenom(dAssetDenom, <<"neutron", "osmosis", "terra", "osmosis">>), <<"8">>),
     Holding("terra", ibcDenom(dAssetDenom, <<"neutron", "osmosis", "terra">>), <<"x">>),
     Holding("neutron", lAssetDenom, <<"1", "2">>) >>

\* The coins of chain among the chosen candidates, in candidate order.
RECURSIVE CoinsOf(_, _, _)
CoinsOf(chosen, chain, k) ==
  IF k > Len(CandidateHoldings) THEN <<>>
  ELSE (IF k \in chosen /\ CandidateHoldings[k].chain = chain
          THEN <<[denom |-> CandidateHoldings[k].denom, amount |-> CandidateHoldings[k].amount]>>
          ELSE <<>>) \o CoinsOf(chosen, chain, k + 1)

\* A bank keeps one coin per denom.
UniqueDenoms(chosen) ==
  \A j, k \in chosen :
     (j # k /\ CandidateHoldings[j].chain = CandidateHoldings[k].chain)
        => CandidateHoldings[j].denom # CandidateHoldings[k].denom

\* The balance lists the chains can hold for the account.
Ledgers ==
  { [c \in ChainSet |-> CoinsOf(chosen, c, 1)] :
      chosen \in { h \in SUBSET (1..Len(CandidateHoldings)) :
                      Cardinality(h) <= MaxHoldings /\ UniqueDenoms(h) } }

\* -------------------------------------------------------------------- state

VARIABLES
  denom,        \* trackBalances' first argument: the base denom of the run
  account,      \* trackBalances' second argument
  ledger,       \* what each chain's bank holds for the account
  pc,           \* "called", "awaiting", "traversing", "returned", "rejected"
  fetch,        \* per chain, the state of its async callback of Promise.all
  allBalances,  \* the object allBalances: chain -> snapshot
  balances,     \* the object balances: chain -> list of BalanceRecord
  stack,        \* the call stack of DFS: frames of path, denomTrace, loop index
  dfsCalls,     \* the number of DFS invocations so far
  outcome,      \* the promise trackBalances returned to its caller
  raised,       \* every error raised so far in the run
  gdCall,       \* the arguments of the latest direct call of getDenom
  gdResult      \* and what that call returned or threw

vars == <<denom, account, ledger, pc, fetch, allBalances, balances, stack, dfsCalls,
          outcome, raised, gdCall, gdResult>>

TrackedDenoms == {dAssetDenom, lAssetDenom}

Pending == [type |-> "pending", value |-> <<>>, reason |-> ""]

Resolved(v) == [type |-> "resolved", value |-> v, reason |-> ""]

Rejected(e) == [type |-> "rejected", value |-> <<>>, reason |-> e]

NoCall == [src |-> "", dest |-> "", base |-> [denom |-> "", trace |-> ""], hops |-> 0]

Idle == [status |-> "idle", address |-> Malformed, error |-> ""]

Init ==
  /\ denom \in TrackedDenoms
  /\ account \in Accounts
  /\ ledger \in Ledgers
  /\ pc = "called"
  /\ fetch = [c \in ChainSet |-> Idle]
  /\ allBalances = <<>>
  /\ balances = <<>>
  /\ stack = <<>>
  /\ dfsCalls = 0
  /\ outcome = Pending
  /\ raised = {}
  /\ gdCall = NoCall
  /\ gdResult = Throw("")

\* ---------------------------------------------------------------- fetching

\* The synchronous part of one async callback of chainNames.map: the address
\* is converted and getAllBalances is called, or the conversion throws and the
\* callback's promise is rejected.
launchOne(chain) ==
  LET converted == convertAddressPrefix(account, chainPrefix[chain])
  IN  IF converted.ok
        THEN [status |-> "pending", address |-> converted.value, error |-> ""]
        ELSE [status |-> "rejected", address |-> Malformed, error |-> converted.error]

\* trackBalances up to the await of Promise.all: all callbacks are started.
Launch ==
  /\ pc = "called"
  /\ fetch' = [c \in ChainSet |-> launchOne(c)]
  /\ raised' = raised \cup {[error |-> launchOne(c).error, at |-> c] :
                              c \in {x \in ChainSet : launchOne(x).status = "rejected"}}
  /\ pc' = "awaiting"
  /\ UNCHANGED <<denom, account, ledger, allBalances, balances, stack, dfsCalls, outcome,
                 gdCall, gdResult>>

\* getAllBalances(chain, address) resolves and the callback stores the snapshot.
FetchResolve(chain) ==
  /\ fetch[chain].status = "pending"
  /\ fetch' = [fetch EXCEPT ![chain].status = "stored"]
  /\ allBalances' = (chain :> ledger[chain]) @@ allBalances
  /\ UNCHANGED <<denom, account, ledger, pc, balances, stack, dfsCalls, outcome, raised,
                 gdCall, gdResult>>

\* StargateClient.connect or client.getAllBalances fails: the callback's
\* promise is rejected.
FetchReject(chain) ==
  /\ fetch[chain].status = "pending"
  /\ fetch' = [fetch EXCEPT ![chain].status = "rejected", ![chain].error = "NetworkError"]
  /\ raised' = raised \cup {[error |-> "NetworkError", at |-> chain]}
  /\ UNCHANGED <<denom, account, ledger, pc, allBalances, balances, stack, dfsCalls,
                 outcome, gdCall, gdResult>>

\* ---------------------------------------------------------------- traversal

\* The loop condition that drops the origin exemption.
EligibleNoOriginExemption(path, chain) == ~Includes(path, chain) /\ Last(path) # chain

\* The loop condition that exempts one entry more than the origin.
EligibleSliceTwo(path, chain) ==
  ~Includes(SubSeq(path, 3, Len(path)), chain) /\ Last(path) # chain

\* The loop condition without the test against the current chain.
EligibleNoSelfTest(path, chain) == ~Includes(Slice1(path), chain)

\* !path.slice(1).includes(chain) && currentChain !== chain
Eligible(path, chain) == ~Includes(Slice1(path), chain) /\ Last(path) # chain

\* The zero-hop DenomTrace with a hashed denom.
baseDenomTraceHashed(d) == [denom |-> "ibc/" \o toUpperCase(hash(d)), trace |-> d]

baseDenomTrace(d) == [denom |-> d, trace |-> d]

Frame(path, denomTrace) == [path |-> path, denomTrace |-> denomTrace, i |-> 1]

\* balances[currentChain].push(record), creating the list on first use.
push(bal, chain, record) ==
  (chain :> ((IF chain \in DOMAIN bal THEN bal[chain] ELSE <<>>) \o <<record>>)) @@ bal

\* The body of DFS before its loop: the balances object after the lookup of
\* denomTrace.denom in the current chain's snapshot, or the TypeError of
\* calling find on a snapshot that is not there.
dfsEntry(bal, path, denomTrace) ==
  LET currentChain == Last(path)
      snapshot     == Lookup(allBalances, currentChain)
  IN  IF ~snapshot.def THEN Throw("TypeError")
      ELSE LET balance == matchedBalance(snapshot.val, denomTrace.denom)
           IN  IF IsPositive(balance)
                 THEN Return(push(bal, currentChain,
                                  [denom |-> denomTrace.denom, originDenom |-> denom,
                                   balance |-> balance.val, path |-> path]))
                 ELSE Return(bal)

\* Runs the loops of the frames on the stack up to the next chain for which DFS
\* is called: chains that fail the condition are skipped and frames whose loop
\* has ended return.
RECURSIVE advance(_)
advance(st) ==
  IF st = <<>> THEN st
  ELSE LET top == Last(st)
       IN  IF top.i > Len(chainNames) THEN advance(SubSeq(st, 1, Len(st) - 1))
           ELSE IF Eligible(top.path, chainNames[top.i]) THEN st
           ELSE advance([st EXCEPT ![Len(st)].i = top.i + 1])

\* Promise.all waits for some callback only.
AnyFulfilled == \E c \in ChainSet : fetch[c].status = "stored"

\* Promise.all waits until every callback has settled, rejected ones included.
AllSettled == \A c \in ChainSet : fetch[c].status \in {"stored", "rejected"}

\* Promise.all resolves when every callback's promise is fulfilled.
AllFulfilled == \A c \in ChainSet : fetch[c].status = "stored"

\* Promise.all rejects as soon as one callback's promise is rejected, and the
\* await throws that reason out of trackBalances.
PromiseAllReject ==
  /\ pc = "awaiting"
  /\ \E c \in ChainSet :
        /\ fetch[c].status = "rejected"
        /\ outcome' = Rejected(fetch[c].error)
  /\ pc' = "rejected"
  /\ UNCHANGED <<denom, account, ledger, fetch, allBalances, balances, stack, dfsCalls,
                 raised, gdCall, gdResult>>

\* Promise.all resolves and trackBalances continues: balances = {} and the
\* call DFS(['neutron'], baseDenomTrace), up to the loop of that call.
StartTraversal ==
  /\ pc = "awaiting"
  /\ AllFulfilled
  /\ LET path  == <<Origin>>
         entry == dfsEntry(<<>>, path, baseDenomTrace(denom))
     IN  IF entry.ok
           THEN /\ balances' = entry.value
                /\ stack' = <<Frame(path, baseDenomTrace(denom))>>
                /\ dfsCalls' = dfsCalls + 1
                /\ pc' = "traversing"
                /\ UNCHANGED <<outcome, raised>>
           ELSE /\ raised' = raised \cup {[error |-> entry.error, at |-> Origin]}
                /\ outcome' = Rejected(entry.error)
                /\ pc' = "rejected"
                /\ UNCHANGED <<balances, stack, dfsCalls>>
  /\ UNCHANGED <<denom, account, ledger, fetch, allBalances, gdCall, gdResult>>

\* The traversal runs on to its next call of DFS and into that call, up to the
\* loop of the called DFS: the loops on the stack skip the chains that fail the
\* condition and return where they have ended, getDenom is evaluated and the
\* body of the called DFS looks the denom up.  The callback of chainNames.map
\* is async, so an error thrown by getDenom or by the called DFS rejects the
\* callback's promise, which nobody awaits, and the loop goes on.
DFSCall ==
  /\ pc = "traversing"
  /\ \E st \in {advance(stack)} :
       /\ st # <<>>
       /\ \E chain \in {chainNames[Last(st).i]} :
          \E path \in {Append(Last(st).path, chain)} :
          \E next \in {getDenom(Last(Last(st).path), chain, Last(st).denomTrace)} :
          \E entry \in {IF next.ok THEN dfsEntry(balances, path, next.value) ELSE next} :
          \E resumed \in {[st EXCEPT ![Len(st)].i = Last(st).i + 1]} :
            IF entry.ok
              THEN /\ balances' = entry.value
                   /\ stack' = Append(resumed, Frame(path, next.value))
                   /\ dfsCalls' = dfsCalls + 1
                   /\ UNCHANGED raised
              ELSE /\ raised' = raised \cup {[error |-> entry.error, at |-> chain]}
                   /\ stack' = resumed
                   /\ dfsCalls' = dfsCalls + (IF next.ok THEN 1 ELSE 0)
                   /\ UNCHANGED balances
  /\ UNCHANGED <<denom, account, ledger, pc, fetch, allBalances, outcome, gdCall, gdResult>>

\* No call of DFS is left: every loop on the stack ends, the outermost DFS
\* returns and trackBalances returns balances.
Finish ==
  /\ pc = "traversing"
  /\ advance(stack) = <<>>
  /\ pc' = "returned"
  /\ stack' = <<>>
  /\ outcome' = Resolved(balances)
  /\ UNCHANGED <<denom, account, ledger, fetch, allBalances, balances, dfsCalls,
                 raised, gdCall, gdResult>>

Next ==
  \/ Launch
  \/ \E chain \in ChainSet : FetchResolve(chain)
  \/ \E chain \in ChainSet : FetchReject(chain)
  \/ PromiseAllReject
  \/ StartTraversal
  \/ DFSCall
  \/ Finish



\* ------------------------------------------------------- getDenom on its own

\* The chain names getDenom is applied to: the registered ones and one that
\* the registry does not know.
CallNames == ChainSet \cup {"juno"}

InitGetDenom ==
  /\ denom = dAssetDenom
  /\ account = mainAccount
  /\ ledger = [c \in ChainSet |-> <<>>]
  /\ pc = "called"
  /\ fetch = [c \in ChainSet |-> Idle]
  /\ allBalances = <<>>
  /\ balances = <<>>
  /\ stack = <<>>
  /\ dfsCalls = 0
  /\ outcome = Pending
  /\ raised = {}
  /\ gdCall = NoCall
  /\ gdResult = Throw("")

\* getDenom(src, dest, base) for a zero-hop trace, or for the trace the
\* previous call returned.
GetDenomCall ==
  \E src \in CallNames, dest \in CallNames :
    \E b \in {[base |-> baseDenomTrace(d), hops |-> 1] : d \in TrackedDenoms}
             \cup (IF gdResult.ok /\ gdCall.hops < MaxHops
                     THEN {[base |-> gdResult.value, hops |-> gdCall.hops + 1]}
                     ELSE {}) :
      /\ gdCall' = [src |-> src, dest |-> dest, base |-> b.base, hops |-> b.hops]
      /\ gdResult' = getDenom(src, dest, b.base)
      /\ UNCHANGED <<denom, account, ledger, pc, fetch, allBalances, balances, stack,
                     dfsCalls, outcome, raised>>

NextGetDenom == GetDenomCall

SpecGetDenom == InitGetDenom /\ [][NextGetDenom]_vars

\* ============================================================== properties

\* The admissible paths: a path starts at the origin, and each next chain
\* differs from the chain before it and from every chain after the first entry.
AdmissiblePaths ==
  UNION { { <<Origin>> \o q :
              q \in { f \in [1..m -> ChainSet] :
                        /\ \A j, k \in 1..m : j # k => f[j] # f[k]
                        /\ m >= 1 => f[1] # Origin } } :
          m \in 0..Len(chainNames) }

\* path[1:] holds no chain twice.
TailHasNoDuplicate(path) ==
  \A j, k \in 2..Len(path) : j # k => path[j] # path[k]

Occurrences(path, chain) == Cardinality({k \in 1..Len(path) : path[k] = chain})

\* Every path the run holds: those of the frames on the call stack and those
\* of the records made so far.
PathsInUse ==
  {stack[k].path : k \in 1..Len(stack)}
    \cup UNION { {balances[c][k].path : k \in 1..Len(balances[c])} : c \in DOMAIN balances }

RecordsOf(bal, chain) == IF chain \in DOMAIN bal THEN Range(bal[chain]) ELSE {}

\* The record the claim expects for an admissible path whose denom is held.
ExpectedRecord(path) ==
  [denom       |-> ibcDenom(denom, path),
   originDenom |-> denom,
   balance     |-> matchedBalance(allBalances[Last(path)], ibcDenom(denom, path)).val,
   path        |-> path]

\* The admissible paths that end on chain and whose denom the chain's snapshot
\* holds in a positive amount.
MatchedPaths(chain) ==
  {p \in AdmissiblePaths :
      /\ Last(p) = chain
      /\ IsPositive(matchedBalance(allBalances[chain], ibcDenom(denom, p)))}

\* C1: when the snapshots hold a positive amount of the base denom on the
\* origin and no positive amount of the denom of any other admissible path on
\* the chain that path ends on, trackBalances returns the mapping with the
\* single key origin and the single record of the base denom with path
\* [origin]; the revisits of the origin add no record.
C1_BaseOnlyOnOrigin ==
  (/\ pc = "returned"
   /\ MatchedPaths(Origin) = {<<Origin>>}
   /\ \A c \in ChainSet \ {Origin} : MatchedPaths(c) = {})
    => /\ outcome.type = "resolved"
       /\ outcome.value =
            (Origin :> << [denom       |-> denom,
                           originDenom |-> denom,
                           balance     |-> matchedBalance(allBalances[Origin], denom).val,
                           path        |-> <<Origin>>] >>)

\* A run has returned with the base denom held on the origin only, after
\* visiting the origin again on longer paths.
C1_Witness ==
  /\ pc = "returned"
  /\ MatchedPaths(Origin) = {<<Origin>>}
  /\ \A c \in ChainSet \ {Origin} : MatchedPaths(c) = {}
  /\ matchedBalance(allBalances[Origin], denom).val > 0
  /\ dfsCalls > Len(chainNames)

\* C2: the records trackBalances returns are exactly one per admissible path
\* whose derived denom has a positive amount in the snapshot of the path's last
\* chain, filed under that chain with that amount; a chain without such a path
\* has no key.
C2_RecordsExactlyPositiveMatches ==
  pc = "returned" =>
    \A c \in ChainSet :
       /\ RecordsOf(outcome.value, c) = {ExpectedRecord(p) : p \in MatchedPaths(c)}
       /\ c \in DOMAIN outcome.value <=> MatchedPaths(c) # {}
       /\ c \in DOMAIN outcome.value =>
            Len(outcome.value[c]) = Cardinality(MatchedPaths(c))

\* A run has returned two records under the origin, one of them for a path
\* that comes back to the origin, and no key for the other chains.
C2_Witness ==
  /\ pc = "returned"
  /\ DOMAIN outcome.value = {Origin}
  /\ Len(outcome.value[Origin]) = 2
  /\ \E k \in 1..2 : Len(outcome.value[Origin][k].path) = 3

\* C3: every path of the traversal and of the records starts at the origin and
\* holds no chain twice after its first entry; so the origin occurs at most
\* twice, no two neighbours are equal and no path is longer than the number of
\* chains plus one.
C3_PathShape ==
  \A path \in PathsInUse :
     /\ path[1] = Origin
     /\ TailHasNoDuplicate(path)
     /\ Occurrences(path, Origin) <= 2
     /\ \A k \in 1..(Len(path) - 1) : path[k] # path[k + 1]
     /\ Len(path) <= Len(chainNames) + 1

\* The traversal stands at a path of the greatest length, on which the origin
\* occurs twice, and a record with a path through the origin exists.
C3_Witness ==
  /\ pc = "traversing"
  /\ stack # <<>>
  /\ Len(Last(stack).path) = Len(chainNames) + 1
  /\ Occurrences(Last(stack).path, Origin) = 2
  /\ \E c \in DOMAIN balances : \E k \in 1..Len(balances[c]) : Len(balances[c][k].path) > 1

\* C4 as stated: at every node of the traversal, [origin] included, the trace
\* is the chain of transfer/<channel>/ segments (the channel read from the row
\* of the receiving chain, the newest hop leftmost) in front of the base denom,
\* and the denom is ibc/ followed by the upper-case hash of that trace.
C4_TraceAndHashedDenomAtEveryNode ==
  \A k \in 1..Len(stack) :
     /\ stack[k].denomTrace.trace = ibcTrace(denom, stack[k].path)
     /\ stack[k].denomTrace.denom =
          "ibc/" \o toUpperCase(hash(ibcTrace(denom, stack[k].path)))

\* C4 as amended: the trace is as stated at every node; the denom is ibc/
\* followed by the upper-case hash of the trace at every node with at least one
\* hop, and is the base denom itself at the node [origin].
C4_TraceAtEveryNode ==
  \A k \in 1..Len(stack) :
     /\ stack[k].denomTrace.trace = ibcTrace(denom, stack[k].path)
     /\ stack[k].denomTrace.denom = ibcDenom(denom, stack[k].path)
     /\ Len(stack[k].path) > 1 =>
          stack[k].denomTrace.denom =
            "ibc/" \o toUpperCase(hash(ibcTrace(denom, stack[k].path)))

\* The traversal stands at a path of six hops that passes the origin again.
C4_Witness ==
  /\ pc = "traversing"
  /\ stack # <<>>
  /\ Len(Last(stack).path) = Len(chainNames) + 1
  /\ Last(stack).path[3] = Origin

\* C5: the traversal starts only when the snapshot of every chain is stored,
\* so it never reads an unset snapshot, and from its start on no snapshot is
\* written and no fetch settles.
C5_TraversalAfterAllSnapshots ==
  [][ /\ pc' \in {"traversing", "returned"} =>
           \A c \in ChainSet :
              /\ fetch'[c].status = "stored"
              /\ c \in DOMAIN allBalances'
              /\ allBalances'[c] = ledger[c]
      /\ pc \in {"traversing", "returned"} =>
           /\ allBalances' = allBalances
           /\ fetch' = fetch ]_vars

\* The traversal is under way on snapshots of which one is not empty.
C5_Witness ==
  /\ pc = "traversing"
  /\ dfsCalls > 1
  /\ DOMAIN allBalances = ChainSet
  /\ \E c \in ChainSet : allBalances[c] # <<>>

\* C6: once an error has been raised the run returns no mapping: it is still
\* awaiting with the rejection of Promise.all due, or it has been rejected with
\* one of the raised errors and without a value; a run that returns a mapping
\* has raised no error, has every snapshot and has visited every path.
C6_ErrorsFailTheRun ==
  /\ raised # {} => pc \in {"awaiting", "rejected"} /\ outcome.type # "resolved"
  /\ (raised # {} /\ pc = "awaiting") => ENABLED PromiseAllReject
  /\ pc = "rejected" =>
       /\ outcome.type = "rejected"
       /\ outcome.value = <<>>
       /\ \E e \in raised : e.error = outcome.reason
  /\ pc = "traversing" => outcome.type = "pending"
  /\ outcome.type = "resolved" =>
       /\ pc = "returned"
       /\ raised = {}
       /\ DOMAIN allBalances = ChainSet
       /\ dfsCalls = Cardinality(AdmissiblePaths)
       /\ outcome.value = balances

\* A balance query failed after another chain's snapshot had been stored, and
\* the run was rejected with the network error.
C6_Witness ==
  /\ pc = "rejected"
  /\ outcome = Rejected("NetworkError")
  /\ \E c \in ChainSet : fetch[c].status = "stored"
  /\ \E c \in ChainSet : fetch[c].status = "rejected"

\* The registry holds a channel for the pair (destination, source).
RegisteredEdge(destChain, srcChain) ==
  /\ destChain \in DOMAIN chainNameToIdMap
  /\ srcChain \in DOMAIN chainNameToIdMap
  /\ chainNameToIdMap[destChain] \in DOMAIN IBCMap
  /\ chainNameToIdMap[srcChain] \in DOMAIN IBCMap[chainNameToIdMap[destChain]]

\* C7: getDenom called for a (destination, source) pair without a registered
\* channel fails and returns no DenomTrace.
C7_MissingEdgeFails ==
  (gdCall.hops > 0 /\ ~RegisteredEdge(gdCall.dest, gdCall.src)) => ~gdResult.ok

RECURSIVE Factorial(_)
Factorial(n) == IF n = 0 THEN 1 ELSE n * Factorial(n - 1)

\* The number of sequences of j different chains out of n.
RECURSIVE Arrangements(_, _)
Arrangements(n, j) == IF j = 0 THEN 1 ELSE n * Arrangements(n - 1, j - 1)

RECURSIVE ArrangementsUpTo(_, _)
ArrangementsUpTo(n, j) ==
  Arrangements(n, j) + (IF j = 0 THEN 0 ELSE ArrangementsUpTo(n, j - 1))

\* The number of admissible paths over k chains: [origin], and a first hop to
\* one of the k - 1 other chains followed by up to k - 1 different chains out
\* of the k - 1 that remain, the origin among them.  1631 for six chains.
NodeBound ==
  1 + (Len(chainNames) - 1)
        * ArrangementsUpTo(Len(chainNames) - 1, Len(chainNames) - 1)

\* C8 as stated: the traversal never visits more than (k-1)! nodes, 120 for
\* the six chains.
C8_AtMostFactorialNodes == dfsCalls <= Factorial(Len(chainNames) - 1)

\* C8 as amended: the traversal never visits more than 1631 nodes for the six
\* chains, and a run that returns has visited exactly that many.
C8_AtMostAdmissibleNodes ==
  /\ dfsCalls <= NodeBound
  /\ pc = "returned" => dfsCalls = NodeBound

\* A run has returned after more than (k-1)! invocations of DFS.
C8_Witness ==
  /\ pc = "returned"
  /\ dfsCalls > Factorial(Len(chainNames) - 1)
  /\ dfsCalls = Cardinality(AdmissiblePaths)

\* C9 as stated: every DenomTrace of the run, the zero-hop one included, has
\* denom = ibc/ followed by the upper-case hash of its trace.
C9_EveryDenomTraceHashed ==
  \A k \in 1..Len(stack) :
     stack[k].denomTrace.denom = "ibc/" \o toUpperCase(hash(stack[k].denomTrace.trace))

\* C9 as amended: every DenomTrace that getDenom returned has denom = ibc/
\* followed by the upper-case hash of its trace; the zero-hop DenomTrace has
\* the base denom as its denom and as its trace.
C9_HashedAfterFirstHop ==
  \A k \in 1..Len(stack) :
     IF k = 1
       THEN stack[k].denomTrace = [denom |-> denom, trace |-> denom]
       ELSE stack[k].denomTrace.denom =
              "ibc/" \o toUpperCase(hash(stack[k].denomTrace.trace))

\* The zero-hop DenomTrace and DenomTraces of one and more hops exist together.
C9_Witness ==
  /\ pc = "traversing"
  /\ Len(stack) >= 3
  /\ stack[1].denomTrace.denom = denom

\* The DenomTrace the traversal carries to the end of path: getDenom applied
\* hop by hop from the zero-hop trace.
RECURSIVE derive(_, _)
derive(base, path) ==
  IF Len(path) = 1 THEN baseDenomTrace(base)
  ELSE getDenom(path[Len(path) - 1], path[Len(path)],
                derive(base, SubSeq(path, 1, Len(path) - 1))).value

DerivedTable == [d \in TrackedDenoms |-> [p \in AdmissiblePaths |-> derive(d, p)]]

PathsEndingAt == [c \in ChainSet |-> {p \in AdmissiblePaths : Last(p) = c}]

\* total = records.reduce((prev, cur) => prev + cur.balance, 0)
RECURSIVE reduceBalance(_)
reduceBalance(records) ==
  IF records = <<>> THEN 0
  ELSE reduceBalance(SubSeq(records, 1, Len(records) - 1)) + Last(records).balance

\* The sum of the positive amounts of the coins of a snapshot whose denom is
\* the denom of some admissible path to the chain, each coin counted once.
RECURSIVE matchedTotal(_, _, _)
matchedTotal(coins, chain, base) ==
  IF coins = <<>> THEN 0
  ELSE matchedTotal(Tail(coins), chain, base)
         + (IF /\ \E p \in PathsEndingAt[chain] : DerivedTable[base][p].denom = Head(coins).denom
               /\ Head(coins).amount # <<>>
               /\ IsPositive(parseFloat(Head(coins).amount))
              THEN parseFloat(Head(coins).amount).val
              ELSE 0)

\* For both tracked denoms, the admissible paths that end on one chain carry
\* pairwise different traces and pairwise different denoms.
DerivedInjective ==
  \A d \in TrackedDenoms : \A c \in ChainSet :
     /\ Cardinality({DerivedTable[d][p].denom : p \in PathsEndingAt[c]})
          = Cardinality(PathsEndingAt[c])
     /\ Cardinality({DerivedTable[d][p].trace : p \in PathsEndingAt[c]})
          = Cardinality(PathsEndingAt[c])

\* C10: admissible paths that end on the same chain carry different traces and
\* denoms, every node of the traversal carries the DenomTrace of its path, no
\* record list holds two records with the same denom, and the sum of a chain's
\* record balances counts each matched coin of its snapshot once.
C10_OneRecordPerHolding ==
  /\ DerivedInjective
  /\ \A k \in 1..Len(stack) :
        /\ stack[k].path \in AdmissiblePaths
        /\ stack[k].denomTrace = DerivedTable[denom][stack[k].path]
  /\ \A c \in DOMAIN balances :
        \A j, k \in 1..Len(balances[c]) :
           j # k => balances[c][j].denom # balances[c][k].denom
  /\ pc = "returned" =>
        \A c \in ChainSet :
           (IF c \in DOMAIN balances THEN reduceBalance(balances[c]) ELSE 0)
             = matchedTotal(allBalances[c], c, denom)

\* A run has returned two records under one chain, for two different paths
\* with different denoms.
C10_Witness ==
  /\ pc = "returned"
  /\ \E c \in DOMAIN balances :
        /\ Len(balances[c]) = 2
        /\ balances[c][1].denom # balances[c][2].denom
        /\ balances[c][1].path # balances[c][2].path
        /\ reduceBalance(balances[c]) = balances[c][1].balance + balances[c][2].balance

Spec == Init /\ [][Next]_vars

====
